---- MODULE Spec2Model ----
(***************************************************************************)
(* Model of alert_dashboard.py: a Streamlit script that is re-executed     *)
(* from its first line on every widget change.  One execution seeds the    *)
(* pseudo-random source, generates the alert table, filters it through the *)
(* sidebar widgets and computes the aggregations that are rendered.        *)
(*                                                                         *)
(* Dates are day numbers counted from base_date (2025-01-01 = 0).          *)
(* Resolution times are hundredths of an hour (the generator rounds to two *)
(* decimals), percentages are tenths of a percent (rounded to one decimal).*)
(***************************************************************************)
EXTENDS Integers, Sequences, FiniteSets, TLC

VARIABLES
    rng,               \* state of numpy's global pseudo-random generator
    data,              \* df as built at line 31: the generated rows
    period,            \* "Select Period" selectbox
    start_input,       \* "Start Date" date_input (Custom Range only)
    end_input,         \* "End Date" date_input (Custom Range only)
    selected_fleets,   \* "Select Fleets" multiselect
    selected_alerts,   \* "Select Alert Types" multiselect
    vessel_options,    \* options the "Select Vessels" multiselect was built with
    selected_vessels,  \* "Select Vessels" multiselect
    start_date,        \* resolved interval, lines 38-54
    end_date,
    df,                \* the working frame: [columns, rows]
    kpi,               \* scalar KPIs, lines 66-71
    alerts_time_df,    \* line 77
    res_time_counts,   \* line 133
    overview,          \* within_sla_pct and resolution_rate, lines 144-145
    top_alerts,        \* line 157
    top_vessels,       \* line 164
    slowest_types,     \* line 170
    repeat_alerts,     \* the frame handed to st.dataframe at line 183
    pc,                \* position of the script run
    changes            \* widget changes made so far in the session

vars == <<rng, data, period, start_input, end_input, selected_fleets,
          selected_alerts, vessel_options, selected_vessels, start_date,
          end_date, df, kpi, alerts_time_df, res_time_counts, overview,
          top_alerts, top_vessels, slowest_types, repeat_alerts, pc, changes>>

--------------------------------------------------------------------------
(* Bounds of the model *)

MaxChanges == 2      \* widget changes explored in one session
NumVessels == 6      \* size of the vessel vocabulary explored
RowsLow == 1         \* rows generated per day: RowsLow .. RowsHigh - 1
RowsHigh == 3
RngStarts == 2       \* generator states a fresh process may start in
PickStride == 30     \* the date pickers offer every PickStride-th day

(* Program constants *)

Seed == 42           \* np.random.seed(42)
DaySpan == 120       \* pd.DateOffset(days=120)
Last7 == 7           \* timedelta(days=7)
Last30 == 30         \* timedelta(days=30)
HeadN == 5           \* .head(5)
RepeatMin == 3       \* repeat_alerts['Count'] >= 3
SlaThreshold == 200  \* sla_threshold = 2 (hours)

fleets == <<"Fleet A", "Fleet B", "Fleet C", "Fleet D">>
alert_types == <<"Speeding", "Late Report", "Excess Slip", "Bilge ROB",
                 "Sludge ROB", "AE Usage", "Shaft Generator Usage">>
vessels == [i \in 1..NumVessels |-> i]

Periods == {"Last 7 Days", "Last 30 Days", "Quarter to Date", "Year to Date",
            "Custom Range"}

\* line 14: pd.date_range(base_date, base_date + 120 days), as day numbers
dates == [i \in 1..(DaySpan + 1) |-> i - 1]

\* sorted(alert_types): the order pandas gives group keys of 'Alert Type'
alert_types_sorted == <<"AE Usage", "Bilge ROB", "Excess Slip", "Late Report",
                        "Shaft Generator Usage", "Sludge ROB", "Speeding">>

BaseColumns == {"Date", "Fleet", "Vessel", "AlertType", "ResTime", "AutoCleared"}

\* a float that is not a number; every number the script computes is >= 0
NaN == 0 - 1
\* a widget that has not been built holds no value
NoDate == 0 - 1
\* a name the current script run has not assigned yet
Unset == <<>>

Range(s) == {s[i] : i \in DOMAIN s}
Min(a, b) == IF a <= b THEN a ELSE b

--------------------------------------------------------------------------
(* The pseudo-random source.  numpy's generator is a deterministic function *)
(* of its state; a multiplicative congruential generator stands for it.     *)

RngMul == 171
RngMod == 30269

NextRng(s) == (RngMul * s) % RngMod

\* the seed call left out: the generator carries on from where it is
np_random_seed_Skipped(cur) == cur

np_random_seed(cur) == Seed

\* np.random.randint(low, high): low <= result < high
randint(s, low, high) == low + (s % (high - low))

\* np.random.choice(seq), uniform
choice(s, seq) == seq[(s % Len(seq)) + 1]

\* round(np.random.exponential(2), 2): a non-negative number of hundredths
ResSupport == <<0, 7, 25, 26, 60, 100, 101, 180, 200, 201, 300, 301, 450,
                600, 601, 900, 1200, 1201, 1500>>
exponential(s) == ResSupport[(s % Len(ResSupport)) + 1]

\* np.random.choice([True, False], p=[0.6, 0.4])
choice_p(s) == (s % 10) < 6

RECURSIVE GenRows(_, _, _, _)
GenRows(date, n, s, acc) ==
    IF n = 0 THEN <<acc, s>>
    ELSE LET s1 == NextRng(s)
             s2 == NextRng(s1)
             s3 == NextRng(s2)
             s4 == NextRng(s3)
             s5 == NextRng(s4)
             row == [Date |-> date,
                     Fleet |-> choice(s1, fleets),
                     Vessel |-> choice(s2, vessels),
                     AlertType |-> choice(s3, alert_types),
                     ResTime |-> exponential(s4),
                     AutoCleared |-> choice_p(s5)]
         IN GenRows(date, n - 1, s5, Append(acc, row))

\* lines 22-30 for one date: the row count, then the rows
GenDay(date, s) ==
    LET s0 == NextRng(s)
    IN GenRows(date, randint(s0, RowsLow, RowsHigh), s0, <<>>)

\* lines 21-30: the loop over dates lo..hi, the generator state threaded
\* through the dates in order (the range is halved to keep evaluation shallow)
RECURSIVE GenDates(_, _, _)
GenDates(lo, hi, s) ==
    IF lo = hi THEN LET r == GenDay(lo, s) IN [rows |-> r[1], rng |-> r[2]]
    ELSE LET mid == (lo + hi) \div 2
             a == GenDates(lo, mid, s)
             b == GenDates(mid + 1, hi, a.rng)
         IN [rows |-> a.rows \o b.rows, rng |-> b.rng]

\* lines 12-31
Generate(cur) == GenDates(0, DaySpan, np_random_seed(cur))

--------------------------------------------------------------------------
(* Period resolution, lines 36-54 *)

\* df["Date"].max() on the generated frame
RECURSIVE MaxDate(_, _, _)
MaxDate(rows, lo, hi) ==
    IF lo = hi THEN rows[lo].Date
    ELSE LET mid == (lo + hi) \div 2
             a == MaxDate(rows, lo, mid)
             b == MaxDate(rows, mid + 1, hi)
         IN IF a >= b THEN a ELSE b
Today(rows) == MaxDate(rows, 1, Len(rows))

\* first day of each month of 2025 as a day number, and of January 2026
MonthStart == <<0, 31, 59, 90, 120, 151, 181, 212, 243, 273, 304, 334, 365>>
MonthOf(d) == CHOOSE m \in 1..12 : MonthStart[m] <= d /\ d < MonthStart[m + 1]

\* pd.Timestamp(today.year, (today.month - 1) // 3 * 3 + 1, 1)
QuarterStart(d) == MonthStart[((MonthOf(d) - 1) \div 3) * 3 + 1]
\* pd.Timestamp(today.year, 1, 1)
YearStart(d) == MonthStart[1]

\* value of a date_input: what the user picked, or the default it is built with
DateInput(picked, default) == IF picked = NoDate THEN default ELSE picked

\* a window of N days instead of N + 1: the first day is today - N + 1
PresetStart_NDays(p, today, picked) ==
    CASE p = "Last 7 Days" -> today - Last7 + 1
      [] p = "Last 30 Days" -> today - Last30 + 1
      [] p = "Quarter to Date" -> QuarterStart(today)
      [] p = "Year to Date" -> YearStart(today)
      [] OTHER -> DateInput(picked, today - Last30)

PresetStart(p, today, picked) ==
    CASE p = "Last 7 Days" -> today - Last7
      [] p = "Last 30 Days" -> today - Last30
      [] p = "Quarter to Date" -> QuarterStart(today)
      [] p = "Year to Date" -> YearStart(today)
      [] OTHER -> DateInput(picked, today - Last30)

PresetEnd(p, today, picked) ==
    IF p = "Custom Range" THEN DateInput(picked, today) ELSE today

--------------------------------------------------------------------------
(* Filters, lines 56-63 *)

\* the end of the interval left out
DateFilter_ExclusiveEnd(rows, s, e) ==
    SelectSeq(rows, LAMBDA r : r.Date >= s /\ r.Date < e)

\* line 56: pd.to_datetime of a date is that day at midnight, which is what the
\* Date column holds, so the comparison is by day
DateFilter(rows, s, e) == SelectSeq(rows, LAMBDA r : r.Date >= s /\ r.Date <= e)
\* an empty selection read as "no filter"
IsinFilter_EmptyMeansAll(rows, col, selected) ==
    IF selected = {} THEN rows ELSE SelectSeq(rows, LAMBDA r : r[col] \in selected)

\* lines 58, 60, 63: df[df[col].isin(selected)]
IsinFilter(rows, col, selected) == SelectSeq(rows, LAMBDA r : r[col] \in selected)

\* line 61 (the order of the options plays no part in the result)
AvailableVessels(rows) == {rows[i].Vessel : i \in DOMAIN rows}

\* line 62: a multiselect keeps the user's selection while it is built with the
\* same options and default, and starts from its default otherwise
VesselSelection(available) ==
    IF available = vessel_options THEN selected_vessels ELSE available

--------------------------------------------------------------------------
(* Series arithmetic *)

RECURSIVE SumRange(_, _, _)
SumRange(s, lo, hi) ==
    IF lo > hi THEN 0
    ELSE IF lo = hi THEN s[lo]
    ELSE LET mid == (lo + hi) \div 2
         IN SumRange(s, lo, mid) + SumRange(s, mid + 1, hi)

\* Series.sum(); s is evaluated once
Sum(s) == CHOOSE r \in {SumRange(t, 1, Len(t)) : t \in {s}} : TRUE

Column(rows, col) == [i \in DOMAIN rows |-> rows[i][col]]

\* Series.mean(): the mean of no values is NaN
Mean(total, n) ==
    IF n = 0 THEN [nan |-> TRUE, num |-> 0, den |-> 1]
             ELSE [nan |-> FALSE, num |-> total, den |-> n]

\* numpy's scalar division sum / len: 0 / 0 is NaN, with a warning and no exception
NpDivide(k, n) == Mean(k, n)

\* round to the nearest integer, halves to the even neighbour
RoundHalfEven(num, den) ==
    LET q == num \div den
        r == num % den
    IN IF 2 * r < den THEN q
       ELSE IF 2 * r > den THEN q + 1
       ELSE IF q % 2 = 0 THEN q ELSE q + 1

\* round(x * scale, digits) in units of the last kept digit; NaN stays NaN
Round(x, scale) == IF x.nan THEN NaN ELSE RoundHalfEven(x.num * scale, x.den)

--------------------------------------------------------------------------
(* KPI values, lines 66-71 *)

IsResolved(r) == r.AutoCleared
IsActive(r) == ~r.AutoCleared

KpiValues(rows) ==
    [total_alerts |-> Len(rows),
     vessels_with_alerts |-> Cardinality({rows[i].Vessel : i \in DOMAIN rows}),
     auto_cleared_percent |-> Round(Mean(Len(SelectSeq(rows, IsResolved)), Len(rows)), 1000),
     avg_resolution |-> Round(Mean(Sum(Column(rows, "ResTime")), Len(rows)), 1),
     active_alerts |-> Len(SelectSeq(rows, IsActive)),
     resolved_alerts |-> Len(SelectSeq(rows, IsResolved))]

--------------------------------------------------------------------------
(* Alerts over time, lines 74-77 *)

\* groupby("Date").size().reset_index(name=...): one row per date present,
\* ascending by date
SizeByDate(rows) ==
    SelectSeq([i \in DOMAIN dates |->
                  [Date |-> dates[i],
                   n |-> Cardinality({j \in DOMAIN rows : rows[j].Date = dates[i]})]],
              LAMBDA g : g.n > 0)

\* merge(..., on="Date", how="left"): the value of the right frame at a date
\* of the left frame, NaN where the right frame has no such date
LeftJoin(right, d) ==
    IF \E j \in DOMAIN right : right[j].Date = d
    THEN right[CHOOSE j \in DOMAIN right : right[j].Date = d].n
    ELSE NaN

\* the missing counts left as they are
fillna_Skipped(x) == x

fillna(x) == IF x = NaN THEN 0 ELSE x

\* line 77
Merge(total, active, resolved) ==
    [i \in DOMAIN total |->
        [Date |-> total[i].Date,
         Total |-> total[i].n,
         Active |-> fillna(LeftJoin(active, total[i].Date)),
         Resolved |-> fillna(LeftJoin(resolved, total[i].Date))]]

--------------------------------------------------------------------------
(* Resolution time distribution, lines 130-133 *)

\* finite bin edges in hundredths of an hour; the last bin has no upper edge
bins == <<0, 25, 100, 300, 600, 1200>>
labels == <<"0-15 min", "15-60 m", "1-3 hrs", "3-6 hrs", "6-12 hrs", "> 12 hrs">>

\* include_lowest left at its default, False
InFirstBin_NoLowest(v) == bins[1] < v /\ v <= bins[2]

\* include_lowest=True: the first interval also holds its left edge
InFirstBin(v) == bins[1] <= v /\ v <= bins[2]

\* pd.cut(..., bins, labels, include_lowest=True): intervals closed on the
\* right; 0 stands for the missing category of a value in no interval
pd_cut(v) ==
    IF InFirstBin(v) THEN 1
    ELSE IF \E b \in 2..5 : bins[b] < v /\ v <= bins[b + 1]
         THEN CHOOSE b \in 2..5 : bins[b] < v /\ v <= bins[b + 1]
    ELSE IF v > bins[6] THEN 6
    ELSE 0

Label(b) == IF b = 0 THEN "NaN" ELSE labels[b]

\* line 132: the assignment adds the column to df itself
WithResBin(frame) ==
    [columns |-> frame.columns \cup {"ResBin"},
     rows |-> [i \in DOMAIN frame.rows |->
                 [Date |-> frame.rows[i].Date,
                  Fleet |-> frame.rows[i].Fleet,
                  Vessel |-> frame.rows[i].Vessel,
                  AlertType |-> frame.rows[i].AlertType,
                  ResTime |-> frame.rows[i].ResTime,
                  AutoCleared |-> frame.rows[i].AutoCleared,
                  ResBin |-> Label(pd_cut(frame.rows[i].ResTime))]]]

\* line 133: value_counts() of a categorical counts every category, missing
\* values dropped; sort_index() puts the categories in their order
BinCounts(rows) ==
    [b \in DOMAIN labels |->
        [ResBin |-> labels[b],
         n |-> Cardinality({i \in DOMAIN rows : rows[i].ResBin = labels[b]})]]

--------------------------------------------------------------------------
(* Overview KPIs, lines 143-145 *)

WithinSla(r) == r.ResTime <= SlaThreshold

OverviewValues(rows) ==
    [within_sla_pct |-> Round(Mean(Len(SelectSeq(rows, WithinSla)), Len(rows)), 1000),
     resolution_rate |-> Round(NpDivide(Len(SelectSeq(rows, IsResolved)), Len(rows)), 1000)]

--------------------------------------------------------------------------
(* Root cause analysis and repeat alerts, lines 157-183 *)

\* the distinct values of a column in order of first appearance, each with
\* its number of rows: value_counts() before it sorts
Counts(rows, col) ==
    LET firsts == SelectSeq([i \in DOMAIN rows |-> [i |-> i, key |-> rows[i][col]]],
                            LAMBDA e : \A j \in 1..(e.i - 1) : rows[j][col] # e.key)
    IN [p \in DOMAIN firsts |->
          [key |-> firsts[p].key,
           sum |-> Cardinality({i \in DOMAIN rows : rows[i][col] = firsts[p].key}),
           n |-> 1]]

\* groupby('Alert Type')['Resolution Time (hrs)'].mean(): one entry per type
\* present, in the order of the sorted keys; the mean is sum / n
MeanByType(rows) ==
    SelectSeq([k \in DOMAIN alert_types_sorted |->
                 [key |-> alert_types_sorted[k],
                  sum |-> Sum(Column(SelectSeq(rows,
                             LAMBDA r : r.AlertType = alert_types_sorted[k]), "ResTime")),
                  n |-> Len(SelectSeq(rows, LAMBDA r : r.AlertType = alert_types_sorted[k]))]],
              LAMBDA g : g.n > 0)

\* the metric a.sum / a.n is greater than b.sum / b.n
Greater(a, b) == a.sum * b.n > b.sum * a.n
Same(a, b) == a.sum * b.n = b.sum * a.n

\* sort descending by the metric, entries of equal metric kept in their order
SortDescending(t) ==
    [p \in DOMAIN t |->
        t[CHOOSE i \in DOMAIN t :
            Cardinality({j \in DOMAIN t :
                \/ Greater(t[j], t[i])
                \/ Same(t[j], t[i]) /\ j < i}) = p - 1]]

\* one entry too many
head_OneMore(t, n) == SubSeq(t, 1, Min(n + 1, Len(t)))

\* .head(n)
head(t, n) == SubSeq(t, 1, Min(n, Len(t)))

\* every (vessel, alert type) pair in the order of the sorted group keys
PairOrder ==
    [p \in 1..(Len(vessels) * Len(alert_types_sorted)) |->
        [Vessel |-> vessels[((p - 1) \div Len(alert_types_sorted)) + 1],
         AlertType |-> alert_types_sorted[((p - 1) % Len(alert_types_sorted)) + 1]]]

\* line 181: groupby(['Vessel', 'Alert Type']).size().reset_index(name='Count')
SizeByPair(rows) ==
    SelectSeq([p \in DOMAIN PairOrder |->
                 [Vessel |-> PairOrder[p].Vessel,
                  AlertType |-> PairOrder[p].AlertType,
                  sum |-> Cardinality({i \in DOMAIN rows :
                              /\ rows[i].Vessel = PairOrder[p].Vessel
                              /\ rows[i].AlertType = PairOrder[p].AlertType}),
                  n |-> 1]],
              LAMBDA g : g.sum > 0)

\* more than 3 instead of at least 3
IsRepeat_Strict(g) == g.sum > RepeatMin

\* line 182
IsRepeat(g) == g.sum >= RepeatMin
RepeatFilter(t) == SelectSeq(t, IsRepeat)

Init ==
    /\ rng \in 1..RngStarts
    /\ data = Unset
    /\ pc = "run"
    /\ changes = 0
    /\ period = "Last 7 Days"
    /\ start_input = NoDate /\ end_input = NoDate
    /\ selected_fleets = Range(fleets)
    /\ selected_alerts = Range(alert_types)
    /\ vessel_options = {} /\ selected_vessels = {}
    /\ start_date = NoDate /\ end_date = NoDate
    /\ df = Unset /\ kpi = Unset /\ alerts_time_df = Unset
    /\ res_time_counts = Unset /\ overview = Unset /\ top_alerts = Unset
    /\ top_vessels = Unset /\ slowest_types = Unset /\ repeat_alerts = Unset

\* lines 12-63: seed, generate, resolve the period, filter
Run ==
    /\ pc = "run"
    /\ \E g \in {Generate(rng)} :
       \E today \in {Today(g.rows)} :
       \E s \in {PresetStart(period, today, start_input)} :
       \E e \in {PresetEnd(period, today, end_input)} :
       \E f3 \in {IsinFilter(IsinFilter(DateFilter(g.rows, s, e),
                                        "Fleet", selected_fleets),
                             "AlertType", selected_alerts)} :
       \E available \in {AvailableVessels(f3)} :
       \E sel \in {VesselSelection(available)} :
          /\ data' = g.rows
          /\ rng' = g.rng
          /\ start_date' = s
          /\ end_date' = e
          /\ start_input' = IF period = "Custom Range" THEN s ELSE NoDate
          /\ end_input' = IF period = "Custom Range" THEN e ELSE NoDate
          /\ vessel_options' = available
          /\ selected_vessels' = sel
          /\ df' = [columns |-> BaseColumns,
                    rows |-> IsinFilter(f3, "Vessel", sel)]
    /\ kpi' = Unset /\ alerts_time_df' = Unset /\ res_time_counts' = Unset
    /\ overview' = Unset /\ top_alerts' = Unset /\ top_vessels' = Unset
    /\ slowest_types' = Unset /\ repeat_alerts' = Unset
    /\ pc' = "kpi"
    /\ UNCHANGED <<period, selected_fleets, selected_alerts, changes>>

Inputs == <<rng, data, period, start_input, end_input, selected_fleets,
            selected_alerts, vessel_options, selected_vessels, start_date,
            end_date, changes>>

\* lines 66-77: KPI values and the time series
Aggregate ==
    /\ pc = "kpi"
    /\ \E rows \in {df.rows} :
       \E total \in {SizeByDate(rows)} :
       \E active \in {SizeByDate(SelectSeq(rows, IsActive))} :
       \E resolved \in {SizeByDate(SelectSeq(rows, IsResolved))} :
          /\ kpi' = KpiValues(rows)
          /\ alerts_time_df' = Merge(total, active, resolved)
    /\ pc' = "bin"
    /\ UNCHANGED <<Inputs, df, res_time_counts, overview, top_alerts,
                   top_vessels, slowest_types, repeat_alerts>>

\* lines 130-133: the binned distribution
Bin ==
    /\ pc = "bin"
    /\ \E binned \in {WithResBin(df)} :
          /\ df' = binned
          /\ res_time_counts' = BinCounts(binned.rows)
    /\ pc' = "flags"
    /\ UNCHANGED <<Inputs, kpi, alerts_time_df, overview, top_alerts,
                   top_vessels, slowest_types, repeat_alerts>>

\* lines 143-183: overview KPIs, top-5 lists, repeat alerts
Flags ==
    /\ pc = "flags"
    /\ \E rows \in {df.rows} :
       \E by_type \in {Counts(rows, "AlertType")} :
       \E by_vessel \in {Counts(rows, "Vessel")} :
       \E mean_by_type \in {MeanByType(rows)} :
       \E by_pair \in {SizeByPair(rows)} :
       \E repeats \in {RepeatFilter(by_pair)} :
          /\ overview' = OverviewValues(rows)
          /\ top_alerts' = head(SortDescending(by_type), HeadN)
          /\ top_vessels' = head(SortDescending(by_vessel), HeadN)
          /\ slowest_types' = head(SortDescending(mean_by_type), HeadN)
          /\ repeat_alerts' = SortDescending(repeats)
    /\ pc' = "done"
    /\ UNCHANGED <<Inputs, df, kpi, alerts_time_df, res_time_counts>>

Computed == <<rng, data, vessel_options, start_date, end_date, df, kpi,
              alerts_time_df, res_time_counts, overview, top_alerts,
              top_vessels, slowest_types, repeat_alerts>>

\* A widget change: Streamlit stores the new value and re-executes the script
Rerun ==
    /\ changes' = changes + 1
    /\ pc' = "run"
    /\ UNCHANGED Computed

Toggle(S, x) == IF x \in S THEN S \ {x} ELSE S \cup {x}

SelectPeriod ==
    /\ pc = "done" /\ changes < MaxChanges
    /\ \E p \in Periods \ {period} : period' = p
    /\ start_input' = NoDate /\ end_input' = NoDate
    /\ UNCHANGED <<selected_fleets, selected_alerts, selected_vessels>>
    /\ Rerun

PickableDates == {d \in Range(dates) : d % PickStride = 0}

PickStart ==
    /\ pc = "done" /\ changes < MaxChanges /\ period = "Custom Range"
    /\ \E d \in PickableDates \ {start_input} : start_input' = d
    /\ UNCHANGED <<period, end_input, selected_fleets, selected_alerts, selected_vessels>>
    /\ Rerun

PickEnd ==
    /\ pc = "done" /\ changes < MaxChanges /\ period = "Custom Range"
    /\ \E d \in PickableDates \ {end_input} : end_input' = d
    /\ UNCHANGED <<period, start_input, selected_fleets, selected_alerts, selected_vessels>>
    /\ Rerun

ToggleFleet ==
    /\ pc = "done" /\ changes < MaxChanges
    /\ \E f \in Range(fleets) : selected_fleets' = Toggle(selected_fleets, f)
    /\ UNCHANGED <<period, start_input, end_input, selected_alerts, selected_vessels>>
    /\ Rerun

ClearFleets ==
    /\ pc = "done" /\ changes < MaxChanges /\ selected_fleets # {}
    /\ selected_fleets' = {}
    /\ UNCHANGED <<period, start_input, end_input, selected_alerts, selected_vessels>>
    /\ Rerun

ToggleAlert ==
    /\ pc = "done" /\ changes < MaxChanges
    /\ \E a \in Range(alert_types) : selected_alerts' = Toggle(selected_alerts, a)
    /\ UNCHANGED <<period, start_input, end_input, selected_fleets, selected_vessels>>
    /\ Rerun

ClearAlerts ==
    /\ pc = "done" /\ changes < MaxChanges /\ selected_alerts # {}
    /\ selected_alerts' = {}
    /\ UNCHANGED <<period, start_input, end_input, selected_fleets, selected_vessels>>
    /\ Rerun

ToggleVessel ==
    /\ pc = "done" /\ changes < MaxChanges
    /\ \E v \in vessel_options : selected_vessels' = Toggle(selected_vessels, v)
    /\ UNCHANGED <<period, start_input, end_input, selected_fleets, selected_alerts>>
    /\ Rerun

ClearVessels ==
    /\ pc = "done" /\ changes < MaxChanges /\ selected_vessels # {}
    /\ selected_vessels' = {}
    /\ UNCHANGED <<period, start_input, end_input, selected_fleets, selected_alerts>>
    /\ Rerun

Next ==
    \/ Run \/ Aggregate \/ Bin \/ Flags
    \/ SelectPeriod \/ PickStart \/ PickEnd
    \/ ToggleFleet \/ ClearFleets
    \/ ToggleAlert \/ ClearAlerts
    \/ ToggleVessel \/ ClearVessels

Spec == Init /\ [][Next]_vars

--------------------------------------------------------------------------
(* Properties *)

Filtered == pc \in {"kpi", "bin", "flags", "done"}

\* the six generated fields of a row
Base(r) == [Date |-> r.Date, Fleet |-> r.Fleet, Vessel |-> r.Vessel,
            AlertType |-> r.AlertType, ResTime |-> r.ResTime,
            AutoCleared |-> r.AutoCleared]
FilteredRows == [i \in DOMAIN df.rows |-> Base(df.rows[i])]

Matches(r) ==
    /\ start_date <= r.Date /\ r.Date <= end_date
    /\ r.Fleet \in selected_fleets
    /\ r.AlertType \in selected_alerts
    /\ r.Vessel \in selected_vessels

\* C1: once the filter step has run, the filtered set is exactly the generated
\* rows r with start <= r.date <= end, r.fleet, r.alert_type and r.vessel in
\* their selected sets, kept in order; its size is the number of such rows.
C1_FilterIsConjunction ==
    Filtered =>
        /\ FilteredRows = SelectSeq(data, Matches)
        /\ Len(df.rows) = Cardinality({i \in DOMAIN data : Matches(data[i])})

\* a render where the date interval and the fleet selection each exclude rows
\* that the other predicates accept, and rows remain
C1_Witness ==
    /\ pc = "done" /\ Len(df.rows) > 0
    /\ \E i \in DOMAIN data : data[i].Date < start_date
    /\ \E i \in DOMAIN data :
          /\ start_date <= data[i].Date /\ data[i].Date <= end_date
          /\ data[i].Fleet \notin selected_fleets
    /\ \E i \in DOMAIN df.rows : df.rows[i].Date = end_date
    /\ \E i \in DOMAIN df.rows : df.rows[i].Date = start_date

\* C2: whenever the filtered set is empty, total alerts = 0, auto-cleared % = 0,
\* average resolution = 0, and the within-2-hours percentage and the
\* resolution rate are numbers.
C2_EmptyKpisDefined ==
    (pc = "done" /\ Len(df.rows) = 0) =>
        /\ kpi.total_alerts = 0
        /\ kpi.auto_cleared_percent = 0
        /\ kpi.avg_resolution = 0
        /\ overview.within_sla_pct # NaN
        /\ overview.resolution_rate # NaN

\* C3: an empty fleet, alert-type or vessel selection, or a date interval with
\* start > end, gives a filtered set of zero rows, and the filter step completes.
C3_DegenerateIsEmpty ==
    (/\ Filtered
     /\ \/ selected_fleets = {}
        \/ selected_alerts = {}
        \/ selected_vessels = {}
        \/ start_date > end_date)
    => Len(df.rows) = 0 /\ FilteredRows = <<>>

\* a completed render of a custom range whose start is after its end, on data
\* that has rows for every other predicate
C3_Witness ==
    /\ pc = "done" /\ period = "Custom Range" /\ start_date > end_date
    /\ selected_fleets = Range(fleets) /\ selected_alerts = Range(alert_types)
    /\ Len(data) > 0 /\ Len(df.rows) = 0

TimeSeriesReady == pc \in {"bin", "flags", "done"}
DatesOf(rows) == {rows[i].Date : i \in DOMAIN rows}
RowsOn(d) == {i \in DOMAIN df.rows : df.rows[i].Date = d}

\* C4: the time series has exactly one entry per distinct date of the filtered
\* set, and at every entry Active + Resolved = Total, a missing count being 0.
C4_TimeSeriesAddsUp ==
    TimeSeriesReady =>
        /\ {alerts_time_df[i].Date : i \in DOMAIN alerts_time_df} = DatesOf(df.rows)
        /\ Len(alerts_time_df) = Cardinality(DatesOf(df.rows))
        /\ \A i \in DOMAIN alerts_time_df :
              /\ alerts_time_df[i].Total = Cardinality(RowsOn(alerts_time_df[i].Date))
              /\ alerts_time_df[i].Active =
                    Cardinality({j \in RowsOn(alerts_time_df[i].Date) :
                                    ~df.rows[j].AutoCleared})
              /\ alerts_time_df[i].Active + alerts_time_df[i].Resolved
                    = alerts_time_df[i].Total

\* a time series with a date that has no active row and a date that has no
\* resolved row
C4_Witness ==
    /\ pc = "done"
    /\ \E i, j \in DOMAIN alerts_time_df :
          /\ alerts_time_df[i].Total > 1 /\ alerts_time_df[i].Active = 0
          /\ alerts_time_df[j].Total > 1 /\ alerts_time_df[j].Resolved = 0

BinsReady == pc \in {"flags", "done"}

\* the interval of each bin, written out
InBin(v, b) ==
    CASE b = 1 -> 0 <= v /\ v <= 25
      [] b = 2 -> 25 < v /\ v <= 100
      [] b = 3 -> 100 < v /\ v <= 300
      [] b = 4 -> 300 < v /\ v <= 600
      [] b = 5 -> 600 < v /\ v <= 1200
      [] b = 6 -> 1200 < v

\* C5: every row's resolution time (0 and the bin edges included) is in exactly
\* one of the six bins, the six counts are reported in bucket order, and they
\* add up to the number of filtered rows.
C5_BinsPartition ==
    BinsReady =>
        /\ Len(res_time_counts) = 6
        /\ \A b \in 1..6 :
              /\ res_time_counts[b].ResBin = labels[b]
              /\ res_time_counts[b].n =
                    Cardinality({i \in DOMAIN df.rows : InBin(df.rows[i].ResTime, b)})
        /\ \A i \in DOMAIN df.rows :
              Cardinality({b \in 1..6 : df.rows[i].ResBin = labels[b]}) = 1
        /\ res_time_counts[1].n + res_time_counts[2].n + res_time_counts[3].n
             + res_time_counts[4].n + res_time_counts[5].n + res_time_counts[6].n
             = Len(df.rows)

\* a filtered set that holds a resolution time of 0 and one on each bin edge
C5_Witness ==
    /\ pc = "done"
    /\ \A v \in {0, 25, 100, 300, 600, 1200} :
          \E i \in DOMAIN df.rows : df.rows[i].ResTime = v
    /\ \E i \in DOMAIN df.rows : df.rows[i].ResTime > 1200

PairCount(v, a) ==
    Cardinality({i \in DOMAIN df.rows :
                    df.rows[i].Vessel = v /\ df.rows[i].AlertType = a})

\* C6: the repeat-offender table lists a (vessel, alert type) pair if and only
\* if the pair occurs at least 3 times in the filtered set, once, with its
\* exact count, and the table is ordered by count descending.
C6_RepeatTable ==
    pc = "done" =>
        /\ \A v \in Range(vessels), a \in Range(alert_types) :
              (\E i \in DOMAIN repeat_alerts :
                    repeat_alerts[i].Vessel = v /\ repeat_alerts[i].AlertType = a)
              <=> PairCount(v, a) >= 3
        /\ \A i \in DOMAIN repeat_alerts :
              repeat_alerts[i].sum =
                  PairCount(repeat_alerts[i].Vessel, repeat_alerts[i].AlertType)
        /\ \A i, j \in DOMAIN repeat_alerts :
              /\ i < j => repeat_alerts[i].sum >= repeat_alerts[j].sum
              /\ (/\ repeat_alerts[i].Vessel = repeat_alerts[j].Vessel
                  /\ repeat_alerts[i].AlertType = repeat_alerts[j].AlertType) => i = j

\* a table with a pair of exactly 3 occurrences and one of more, while a pair
\* of exactly 2 occurrences is left out
C6_Witness ==
    /\ pc = "done"
    /\ \E i, j \in DOMAIN repeat_alerts :
          repeat_alerts[i].sum = 3 /\ repeat_alerts[j].sum > 3
    /\ \E v \in Range(vessels), a \in Range(alert_types) : PairCount(v, a) = 2

KeysOf(col) == {df.rows[i][col] : i \in DOMAIN df.rows}
KeyCount(col, k) == Cardinality({i \in DOMAIN df.rows : df.rows[i][col] = k})
KeyTotal(k) ==
    Sum([i \in DOMAIN df.rows |->
            IF df.rows[i].AlertType = k THEN df.rows[i].ResTime ELSE 0])

\* a top-5 list t of the keys of column col: no longer than 5 and as long as
\* the keys allow, keys distinct, descending, nothing larger left out
IsTop(t, col) ==
    /\ Len(t) = Min(5, Cardinality(KeysOf(col)))
    /\ \A i \in DOMAIN t : t[i].key \in KeysOf(col)
    /\ \A i, j \in DOMAIN t :
          /\ i < j => t[i].sum * t[j].n >= t[j].sum * t[i].n
          /\ t[i].key = t[j].key => i = j

C8_AggregationsLeaveDf ==
    [][(pc \in {"kpi", "bin", "flags"}) => (df' = df)]_vars

\* the rows the current widget values select from the generated collection
SelectionOf(rows) ==
    CHOOSE result \in
        {SelectSeq(rows, LAMBDA r :
            /\ PresetStart(period, today, start_input) <= r.Date
            /\ r.Date <= PresetEnd(period, today, end_input)
            /\ r.Fleet \in selected_fleets
            /\ r.AlertType \in selected_alerts
            /\ r.Vessel \in selected_vessels) : today \in {Today(rows)}} : TRUE

\* C9: once generated, the event collection is the same after every later
\* step, and after every filter step the filtered set is what the current
\* widget values alone select from it.
C9_NoResidue ==
    /\ [][(data # Unset) => (data' = data)]_vars
    /\ [](Filtered => FilteredRows = SelectionOf(data))

\* a fleet was deselected and selected again: the selection is the default one
\* and the render shows rows of every fleet
C9_Witness ==
    /\ pc = "done" /\ changes = 2
    /\ period = "Last 7 Days"
    /\ selected_fleets = Range(fleets) /\ selected_alerts = Range(alert_types)
    /\ selected_vessels = vessel_options
    /\ {df.rows[i].Fleet : i \in DOMAIN df.rows} = Range(fleets)

IsToday(d) ==
    /\ \A i \in DOMAIN data : data[i].Date <= d
    /\ \E i \in DOMAIN data : data[i].Date = d

\* C10: under 'Last 7 Days' and 'Last 30 Days' the interval is
\* [today - N, today] with today the latest generated date; rows dated exactly
\* today - N pass the date filter, and with every fleet, alert type and vessel
\* selected the filtered set spans the N + 1 days today - N .. today.
C10_PresetWindow ==
    \A N \in {7, 30} :
        (Filtered /\ period = (IF N = 7 THEN "Last 7 Days" ELSE "Last 30 Days")) =>
            /\ IsToday(end_date)
            /\ start_date = end_date - N
            /\ \A i \in DOMAIN data :
                  (/\ data[i].Date >= end_date - N /\ data[i].Date <= end_date
                   /\ data[i].Fleet \in selected_fleets
                   /\ data[i].AlertType \in selected_alerts
                   /\ data[i].Vessel \in selected_vessels)
                  => \E j \in DOMAIN df.rows : Base(df.rows[j]) = data[i]
            /\ (/\ selected_fleets = Range(fleets)
                /\ selected_alerts = Range(alert_types)
                /\ selected_vessels = vessel_options)
               => /\ DatesOf(df.rows) = (end_date - N)..end_date
                  /\ Cardinality(DatesOf(df.rows)) = N + 1

\* a 'Last 30 Days' render that shows a row dated exactly today - 30 while the
\* data holds a row dated today - 31
C10_Witness ==
    /\ pc = "done" /\ period = "Last 30 Days"
    /\ \E i \in DOMAIN df.rows : df.rows[i].Date = end_date - 30
    /\ \E i \in DOMAIN data : data[i].Date = end_date - 31
    /\ \A i \in DOMAIN df.rows : df.rows[i].Date >= end_date - 30
====
